---- MODULE Spec2Model ----
(***************************************************************************)
(* Fleet-management agents (src/maintenance_agent/agent.py) and their data *)
(* tools (src/fleet_management_agent/tools.py).                            *)
(*                                                                         *)
(* The statements of the agent module are executed in source order.  The   *)
(* statement that builds appointment_booking_agent reads the name          *)
(* MODEL_FAST, which nothing binds: it raises NameError and the statements *)
(* after it (both SequentialAgents, parallel_maintenance_agent,            *)
(* merger_agent, root_agent) are never executed.  The names bound before   *)
(* it stay bound in the namespace the module was executed in, and a caller *)
(* can run the agents bound there on a session, one after the other.       *)
(*                                                                         *)
(* An agent invocation is one atomic step.  What a language-model agent    *)
(* answers is an input drawn from a small set; what it does with the       *)
(* session state (output_key, the exit_loop tool), what its instruction    *)
(* text tells it to test, and how LoopAgent drives its sub_agents is the   *)
(* program.                                                                *)
(***************************************************************************)
EXTENDS Naturals, Sequences, FiniteSets

VARIABLES
  pc,                   \* index of the module statement executed next
  defined,              \* agent names the module has bound so far
  load_error,           \* exception that ended the module's execution, or "none"
  script,               \* the agents the caller runs on the session, in order
  stage,                \* index in script of the agent that runs next
  state,                \* session state: output_key -> text
  phase,                \* position of the refinement loop (per-round state machine)
  times_looped,         \* LoopAgent's count of completed iterations
  escalate,             \* actions.escalate, as set by the exit_loop tool
  failed,               \* agent whose invocation raised, or NoAgent
  tool_failed,          \* agent whose latest answer followed a tool call that returned an error, or NoAgent
  raised,               \* an exception has reached the caller
  refiner_output,       \* history: text of the Refiner's latest answer
  prev_round_candidate, \* history: candidate as it stood when the last round ended
  sentinel_seen,        \* history: the Critic has answered COMPLETION_PHRASE
  critic_round,         \* history: round in which the Critic last answered (0: never)
  critic_output,        \* history: the Critic's last answer
  last_answered,        \* history: sub-agent of the loop that answered last
  warehouse,            \* INSERT statements run against each warehouse table
  tool_call,            \* latest call of a data tool: the tool and what its external calls do
  tool_return           \* what that call gave back to its caller

moduleVars == <<pc, defined, load_error>>

runVars ==
  <<script, stage, state, phase, times_looped, escalate, failed, tool_failed,
    raised, refiner_output, prev_round_candidate, sentinel_seen, critic_round,
    critic_output, last_answered>>

toolVars == <<tool_call, tool_return>>

vars == <<moduleVars, runVars, warehouse, toolVars>>

(***************************************************************************)
(* Texts                                                                   *)
(***************************************************************************)

\* Number of distinct schedule texts a scheduling or refinement answer is drawn from.
NumSchedules == 2

ScheduleName == <<"schedule-1", "schedule-2", "schedule-3", "schedule-4">>

ScheduleTexts == {ScheduleName[i] : i \in 1..NumSchedules}

\* Value of the module constant COMPLETION_PHRASE.
COMPLETION_PHRASE == "No major issues found."

\* The phrase the instructions of the Critic and of the Refiner carry: the
\* instruction strings are not f-strings, so the placeholder is in them as
\* written and the constant's value is not.
PromptPhrase == "{COMPLETION_PHRASE}"

LowerCasePhrase == "no major issues found."

TrailingSpacePhrase == "No major issues found. "

LeadingSpacePhrase == " No major issues found."

ActionableFeedback == "Move the appointment after the rental ends."

EmptyFeedback == ""

BlankFeedback == "   "

\* Answers that differ from the constant's value in case or outer whitespace only.
PhraseVariants == {LowerCasePhrase, TrailingSpacePhrase, LeadingSpacePhrase}

\* Answers that are neither a phrase nor usable critique text.
MalformedFeedback == {EmptyFeedback, BlankFeedback}

\* A state key that no agent has written yet.
Unset == "<unset>"

\* An agent answer that carries no text.
NoText == "<no text>"

\* Everything the Critic's model may answer: the phrase its instruction
\* names, any other text, or no text at all.
CriticAnswers ==
  {PromptPhrase, COMPLETION_PHRASE, ActionableFeedback, NoText}
    \cup PhraseVariants \cup MalformedFeedback

(***************************************************************************)
(* Agents                                                                  *)
(***************************************************************************)

NoAgent == "none"

\* Iteration bound of appointment_refinement_loop.
max_iterations == 5

\* sub_agents of appointment_refinement_loop, in order.
appointment_refinement_loop ==
  <<"appointment_critic_agent", "appointment_refinement_agent">>

\* output_key of each agent that has one.
OutputKeys ==
  {"recall_result", "predictive_maintenance_result",
   "appointment_scheduling_result", "appointment_critic_result"}

OutputKey_CriticWrongKey(agent) ==
  CASE agent = "recall_agent" -> "recall_result"
    [] agent = "predictive_maintenance_agent" -> "predictive_maintenance_result"
    [] agent = "appointment_scheduling_agent" -> "appointment_scheduling_result"
    [] agent = "appointment_critic_agent" -> "appointment_scheduling_result"
    [] agent = "appointment_refinement_agent" -> "appointment_scheduling_result"

OutputKey(agent) ==
  CASE agent = "recall_agent" -> "recall_result"
    [] agent = "predictive_maintenance_agent" -> "predictive_maintenance_result"
    [] agent = "appointment_scheduling_agent" -> "appointment_scheduling_result"
    [] agent = "appointment_critic_agent" -> "appointment_critic_result"
    [] agent = "appointment_refinement_agent" -> "appointment_scheduling_result"

\* An agent with an output_key stores the text of its final answer under it;
\* an answer without text stores nothing.
SaveOutput(st, agent, text) ==
  IF text = NoText THEN st ELSE [st EXCEPT ![OutputKey(agent)] = text]

Candidate == state["appointment_scheduling_result"]

Feedback == state["appointment_critic_result"]

\* The summary recall_agent or predictive_maintenance_agent answers.
Summary(a) == "summary of " \o a

(***************************************************************************)
(* Refinement loop                                                         *)
(***************************************************************************)

LoopSubAgents ==
  {appointment_refinement_loop[i] : i \in 1..Len(appointment_refinement_loop)}

LoopTerminal == {"TERMINATED", "ROUNDS_EXHAUSTED"}

Phases == {"AWAITING_CRITIQUE", "CRITIQUED", "FAULT"} \cup LoopTerminal

\* The exit_loop tool: signals the enclosing LoopAgent to stop.
exit_loop == TRUE

\* The Refiner's test as its instruction states it: the critique is
\* *exactly* the phrase the instruction carries.
IsCompletionPhrase(critique) == critique = PromptPhrase

RefinerAnswer_SkipsMalformed(critique, refined) ==
  IF IsCompletionPhrase(critique) \/ critique \in MalformedFeedback
    THEN NoText
    ELSE refined

\* Text of the Refiner's answer: none when it calls exit_loop, else the
\* refined schedule its model produced.
RefinerAnswer(critique, refined) ==
  IF IsCompletionPhrase(critique) THEN NoText ELSE refined

\* Whether the Refiner's answer carries the exit_loop call.
RefinerEscalates(critique) ==
  IF IsCompletionPhrase(critique) THEN exit_loop ELSE FALSE

\* LoopAgent leaves the loop as soon as a sub-agent's event escalates.
ShouldExit(esc) == esc

LoopContinues_OffByOne(n) == n <= max_iterations

\* LoopAgent's iteration test.
LoopContinues(n) == n < max_iterations

NextTimesLooped_Stuck(n) == n

\* LoopAgent counts an iteration once both sub-agents have run.
NextTimesLooped(n) == n + 1

\* Where LoopAgent stands after the Refiner, the last sub-agent of an
\* iteration, has answered: out on escalation, else the iteration is counted
\* and the iteration test decides.
LoopOutcome(esc, n) ==
  IF ShouldExit(esc) THEN "TERMINATED"
  ELSE IF LoopContinues(NextTimesLooped(n)) THEN "AWAITING_CRITIQUE"
  ELSE "ROUNDS_EXHAUSTED"

(***************************************************************************)
(* Agents' tools and the warehouse                                         *)
(*                                                                         *)
(* The agents import their tools from maintenance_agent/tools.py, which is *)
(* not among the sources.  Which tools an agent has is its tools=[...]     *)
(* list.  What a tool does is taken from the specification: a tool is a    *)
(* thin query or insert wrapper around the warehouse that gives a failure  *)
(* of its external call back as an error dict; the create_ tools insert,   *)
(* every other tool retrieves; exit_loop signals the loop to stop.         *)
(***************************************************************************)

\* The warehouse tables an INSERT of the model targets.
Tables == {"PART_ORDER", "APPOINTMENT", "RENTAL"}

\* Largest number of INSERT statements the warehouse runs on one session.
MaxInserts == 1

ToolsOf_CriticBooks(agent) ==
  CASE agent = "recall_agent" -> {"recall_query", "vehicle_list"}
    [] agent = "predictive_maintenance_agent" -> {"health_bulk_query", "vehicle_list"}
    [] agent = "part_ordering_agent" ->
         {"part_query", "part_delivery_time_query", "part_order_query",
          "create_part_order"}
    [] agent = "appointment_scheduling_agent" -> {"part_order_list"}
    [] agent = "appointment_critic_agent" ->
         {"vehicle_rental_query", "part_order_list", "create_appointment"}
    [] agent = "appointment_refinement_agent" -> {"exit_loop"}
    [] OTHER -> {}

\* tools=[...] of each agent the module builds.
ToolsOf(agent) ==
  CASE agent = "recall_agent" -> {"recall_query", "vehicle_list"}
    [] agent = "predictive_maintenance_agent" -> {"health_bulk_query", "vehicle_list"}
    [] agent = "part_ordering_agent" ->
         {"part_query", "part_delivery_time_query", "part_order_query",
          "create_part_order"}
    [] agent = "appointment_scheduling_agent" -> {"part_order_list"}
    [] agent = "appointment_critic_agent" -> {"vehicle_rental_query", "part_order_list"}
    [] agent = "appointment_refinement_agent" -> {"exit_loop"}
    [] OTHER -> {}

\* The table a tool of the agents is there to insert into: the two create_
\* tools order a part and book an appointment, every other tool retrieves.
InsertsInto(tool) ==
  CASE tool = "create_part_order" -> {"PART_ORDER"}
    [] tool = "create_appointment" -> {"APPOINTMENT"}
    [] OTHER -> {}

\* The tools of the agents that query the warehouse.
WarehouseTools ==
  {"vehicle_list", "health_bulk_query", "part_query",
   "part_delivery_time_query", "part_order_query", "create_part_order",
   "part_order_list", "vehicle_rental_query", "create_appointment"}

\* An agent has a tool that queries the warehouse.
CallsWarehouse(agent) == ToolsOf(agent) \cap WarehouseTools # {}

\* The tables an agent can insert into through its tools.
WritableBy(agent) == UNION {InsertsInto(tool) : tool \in ToolsOf(agent)}

\* Number of INSERT statements counted in w, all tables together.
Total(w) == w["PART_ORDER"] + w["APPOINTMENT"] + w["RENTAL"]

\* The INSERT statements one invocation of an agent may have run, per table.
Inserts(agent) ==
  LET writable == WritableBy(agent)
  IN {f \in [Tables -> 0..MaxInserts] : \A t \in Tables \ writable : f[t] = 0}

Written(w, f) == [t \in Tables |-> w[t] + f[t]]

\* The warehouse after one invocation of an agent.
Handed(w, agent) ==
  {Written(w, f) : f \in {g \in Inserts(agent) : Total(w) + Total(g) <= MaxInserts}}

(***************************************************************************)
(* Execution of the agent module                                           *)
(***************************************************************************)

\* Names bound by the assignments at the top of the module.
ModuleConstants == {"MODEL", "COMPLETION_PHRASE"}

\* The statements of the module that build an agent, in source order: the
\* name the statement binds and the names its call reads (model=...,
\* sub_agents=[...]).
ModuleStatements ==
  << [binds |-> "recall_agent", reads |-> {"MODEL"}],
     [binds |-> "predictive_maintenance_agent", reads |-> {"MODEL"}],
     [binds |-> "part_ordering_agent", reads |-> {"MODEL"}],
     [binds |-> "appointment_scheduling_agent", reads |-> {"MODEL"}],
     [binds |-> "appointment_critic_agent", reads |-> {"MODEL"}],
     [binds |-> "appointment_refinement_agent", reads |-> {"MODEL"}],
     [binds |-> "appointment_refinement_loop",
      reads |-> {"appointment_critic_agent", "appointment_refinement_agent"}],
     [binds |-> "appointment_booking_agent", reads |-> {"MODEL_FAST"}],
     [binds |-> "sequential_appointment_agent",
      reads |-> {"appointment_scheduling_agent", "appointment_refinement_loop",
                 "appointment_booking_agent"}],
     [binds |-> "notification_agent", reads |-> {"MODEL"}],
     [binds |-> "parallel_maintenance_agent",
      reads |-> {"predictive_maintenance_agent", "recall_agent"}],
     [binds |-> "merger_agent", reads |-> {"MODEL"}],
     [binds |-> "sequential_maintenance_agent",
      reads |-> {"parallel_maintenance_agent", "merger_agent",
                 "part_ordering_agent", "appointment_scheduling_agent",
                 "appointment_refinement_loop"}],
     [binds |-> "root_agent",
      reads |-> {"sequential_maintenance_agent", "part_ordering_agent",
                 "sequential_appointment_agent", "notification_agent"}] >>

\* The module's execution has ended: by an exception or after its last statement.
LoadEnded == load_error # "none" \/ pc > Len(ModuleStatements)

\* The bound agents that are sub_agents of no bound agent.
Runnable(d) ==
  {a \in d : \A i \in 1..Len(ModuleStatements) :
                ModuleStatements[i].binds \in d => a \notin ModuleStatements[i].reads}

\* Largest number of agents the caller runs on one session.
MaxScriptLen == 2

\* What a caller can run on one session: bound agents, each at most once.
Scripts(d) ==
  {sc \in UNION {[1..n -> Runnable(d)] : n \in 1..MaxScriptLen} :
     \A i, j \in 1..Len(sc) : sc[i] = sc[j] => i = j}

\* The agent that is running, NoAgent when the caller runs none.
CurrentAgent ==
  IF ~raised /\ stage <= Len(script) THEN script[stage] ELSE NoAgent

\* The caller has run every agent of its script.
RunDone == ~raised /\ script # <<>> /\ stage > Len(script)

\* Runs of appointment_booking_agent (the Commit stage) so far.
Commits ==
  Cardinality({i \in 1..Len(script) :
                 i < stage /\ script[i] = "appointment_booking_agent"})

(***************************************************************************)
(* Data tools (src/fleet_management_agent/tools.py)                        *)
(***************************************************************************)

\* Largest number of rows a warehouse query gives back.
MaxRows == 2

\* Cell values of a result row, by Python type.
DateCell == [type |-> "datetime.date", text |-> "2025-01-31"]

DecimalCell == [type |-> "decimal.Decimal", text |-> "12.5"]

TextCell == [type |-> "str", text |-> "VIN-1"]

Cells == {DateCell, DecimalCell, TextCell}

\* Result sets: up to MaxRows rows of one column.
ResultSets == UNION {[1..n -> Cells] : n \in 0..MaxRows}

\* Messages of the exceptions an external call raises.
ErrorMessages == {"403 Access Denied", "Connection timed out"}

\* The calls of db_query's try block that can raise, in order; the last is
\* the loop that converts dates and decimals.
DbSteps ==
  <<"bigquery.Client", "client.query", "query_job.result",
    "results.to_dataframe", "df.to_dict", "convert rows">>

\* The external calls of recall_query's try block, in order.
RecallSteps == <<"requests.get", "r.json">>

\* What the external calls of one tool call do: the step that raises
\* (0: none), the exception's message, and the rows of a successful query.
Externals(steps) ==
  [fails_at : 0..Len(steps), message : ErrorMessages, rows : ResultSets]

NoCall ==
  [tool |-> "none", args |-> <<>>, text |-> <<>>, fails_at |-> 0,
   message |-> "", rows |-> <<>>]

NoReturn ==
  [raised |-> FALSE, type |-> "none", key |-> "", text |-> "", rows |-> <<>>,
   calls |-> <<>>]

\* The row loop of db_query: dates to ISO text, decimals to float.
ConvertCell(c) ==
  CASE c.type = "datetime.date" -> [type |-> "str", text |-> c.text]
    [] c.type = "decimal.Decimal" -> [type |-> "float", text |-> c.text]
    [] OTHER -> c

\* The external calls a try block makes: all of them, or those up to the
\* one that raises.
CallsMade(steps, ext) ==
  SubSeq(steps, 1, IF ext.fails_at = 0 THEN Len(steps) ELSE ext.fails_at)

db_query_except_Reraise(ext) ==
  [raised |-> TRUE, type |-> "none", key |-> "", text |-> ext.message,
   rows |-> <<>>, calls |-> CallsMade(DbSteps, ext)]

\* db_query's except clause: the error comes back as a dict.
db_query_except(ext) ==
  [raised |-> FALSE, type |-> "dict", key |-> "error",
   text |-> "An error occured with BigQuery: " \o ext.message,
   rows |-> <<>>, calls |-> CallsMade(DbSteps, ext)]

db_query(ext) ==
  IF ext.fails_at # 0
    THEN db_query_except(ext)
    ELSE [raised |-> FALSE, type |-> "list", key |-> "", text |-> "",
          rows |-> [i \in 1..Len(ext.rows) |-> ConvertCell(ext.rows[i])],
          calls |-> CallsMade(DbSteps, ext)]

\* recall_query's except clause.
recall_query_except(ext) ==
  [raised |-> FALSE, type |-> "dict", key |-> "status",
   text |-> "Error retrieving recalls.", rows |-> <<>>,
   calls |-> CallsMade(RecallSteps, ext)]

recall_query(ext) ==
  IF ext.fails_at # 0
    THEN recall_query_except(ext)
    ELSE [raised |-> FALSE, type |-> "dict", key |-> "results", text |-> "",
          rows |-> ext.rows, calls |-> CallsMade(RecallSteps, ext)]

\* notify makes no external call.
notify ==
  [raised |-> FALSE, type |-> "dict", key |-> "status", text |-> "success",
   rows |-> <<>>, calls |-> <<>>]

\* A statement of an SQL text: what it does and to which table.
Statements == [kind : {"SELECT", "INSERT"}, table : Tables]

\* A copy of an argument that brings nothing but a value into the text.
PlainArg == <<>>

\* What one formatted copy of an argument brings into the SQL text: a value
\* only, or (nothing is escaped) a further statement.  It is a value only
\* when the argument is one, and also when the copy comes to lie in a
\* comment or in a string literal that the text before it has opened.  Only
\* the INSERT statements a copy adds are kept: a SELECT it adds besides
\* changes no table.
ArgTexts ==
  {PlainArg} \cup {<<st>> : st \in {x \in Statements : x.kind = "INSERT"}}

\* The tools that end in `return db_query(query)`.
DbTools ==
  {"fleet_query", "health_query", "health_bulk_query", "vehicle_query",
   "part_query", "vehicle_appointment_query", "vehicle_rental_query",
   "part_delivery_time_query", "part_order_query", "create_part_order",
   "create_appointment"}

\* The parameters of each tool, in the order of its def.
Parameters(tool) ==
  CASE tool \in {"health_query", "vehicle_query", "vehicle_appointment_query",
                 "vehicle_rental_query"} -> <<"vehicle_id">>
    [] tool = "part_delivery_time_query" -> <<"part_id">>
    [] tool = "part_order_query" -> <<"order_id">>
    [] tool = "create_part_order" -> <<"part_id", "quantity">>
    [] tool = "create_appointment" -> <<"vehicle_id", "time", "place", "order_id">>
    [] OTHER -> <<>>

\* The {...} fields of each tool's f-string, in the order of the text: the
\* parameter each field formats.
Fields(tool) ==
  CASE tool = "part_delivery_time_query" -> <<"part_id", "part_id">>
    [] tool = "create_part_order" -> <<"quantity", "part_id">>
    [] tool = "create_appointment" -> <<"time", "place", "order_id", "vehicle_id">>
    [] OTHER -> Parameters(tool)

\* The statement a tool's SQL text is written to be.
OwnStatement(tool) ==
  CASE tool = "create_part_order" -> [kind |-> "INSERT", table |-> "PART_ORDER"]
    [] tool = "create_appointment" -> [kind |-> "INSERT", table |-> "APPOINTMENT"]
    [] tool = "vehicle_appointment_query" -> [kind |-> "SELECT", table |-> "APPOINTMENT"]
    [] tool = "vehicle_rental_query" -> [kind |-> "SELECT", table |-> "RENTAL"]
    [] tool = "part_order_query" -> [kind |-> "SELECT", table |-> "PART_ORDER"]
    [] tool \in {"fleet_query", "vehicle_query"} -> [kind |-> "SELECT", table |-> "VEHICLE"]
    [] tool \in {"health_query", "health_bulk_query"} -> [kind |-> "SELECT", table |-> "PM"]
    [] tool = "part_query" -> [kind |-> "SELECT", table |-> "PART"]
    [] tool = "part_delivery_time_query" -> [kind |-> "SELECT", table |-> "PART_DELIVERY"]

\* The fields of a tool's f-string that format a parameter.
Occurrences(tool, parameter) ==
  {i \in 1..Len(Fields(tool)) : Fields(tool)[i] = parameter}

\* How often the f-string of a tool formats the parameter at position p.
Copies(tool, p) == Cardinality(Occurrences(tool, Parameters(tool)[p]))

\* The arguments a tool can be called with: for each parameter a string,
\* given by what each of its formatted copies brings into the text.
ArgsOf(tool) ==
  LET n == Len(Parameters(tool))
      strings == UNION {[1..Copies(tool, p) -> ArgTexts] : p \in 1..n}
  IN {args \in [1..n -> strings] :
        \A p \in 1..n : Len(args[p]) = Copies(tool, p)}

\* The argument given for a parameter.
ArgFor(tool, args, parameter) ==
  args[CHOOSE i \in 1..Len(Parameters(tool)) : Parameters(tool)[i] = parameter]

\* What the field at position i of the f-string brings into the text: the
\* copy of its parameter's argument that is formatted there.
FieldText(tool, args, i) ==
  LET parameter == Fields(tool)[i]
      copy == Cardinality({j \in Occurrences(tool, parameter) : j <= i})
  IN ArgFor(tool, args, parameter)[copy]

RECURSIVE Formatted(_, _, _)
\* What the first n fields of the f-string bring into the text, field
\* after field.
Formatted(tool, args, n) ==
  IF n = 0 THEN <<>>
  ELSE Formatted(tool, args, n - 1) \o FieldText(tool, args, n)

\* The f-string of a tool: its own statement with every field formatted.
SqlText(tool, args) ==
  <<OwnStatement(tool)>> \o Formatted(tool, args, Len(Fields(tool)))

\* Number of INSERT statements into table t that a text carries.
InsertCount(text, t) ==
  Cardinality({i \in 1..Len(text) :
                 text[i].kind = "INSERT" /\ text[i].table = t})

\* Largest number of statements in a text handed to db_query directly.
MaxTextLen == 2

\* The texts a caller can hand to db_query directly.
QueryTexts == UNION {[1..n -> Statements] : n \in 1..MaxTextLen}

\* How often the calls made have handed the text to the warehouse.
Handovers(calls) ==
  Cardinality({i \in 1..Len(calls) : calls[i] = "client.query"})

\* How many statements of the text the warehouse has run at a handover:
\* all of them when query_job.result() has returned (results.to_dataframe
\* was reached); when client.query or query_job.result raised, the script
\* has stopped at any statement.
RunOutcomes(text, calls) ==
  IF \E i \in 1..Len(calls) : calls[i] = "results.to_dataframe"
    THEN {Len(text)}
    ELSE 0..Len(text)

\* The INSERT statements among the first n statements of a text, per table.
Ran(text, n) == [t \in Tables |-> InsertCount(SubSeq(text, 1, n), t)]

\* db_query(query): the external calls it makes, what it returns, and what
\* the warehouse has run of the text at each handover.
Query(tool, args, text) ==
  \E ext \in Externals(DbSteps) :
    LET ret == db_query(ext)
    IN /\ tool_call' = [tool |-> tool, args |-> args, text |-> text,
                        fails_at |-> ext.fails_at, message |-> ext.message,
                        rows |-> ext.rows]
       /\ tool_return' = ret
       /\ \E n \in RunOutcomes(text, ret.calls) :
            warehouse' = [t \in Tables |->
                            warehouse[t] + Handovers(ret.calls) * Ran(text, n)[t]]

\* A warehouse tool formats its arguments into its SQL text and hands it to
\* db_query.
CallDbTool ==
  /\ tool_call = NoCall
  /\ \E tool \in DbTools : \E args \in ArgsOf(tool) :
       Query(tool, args, SqlText(tool, args))
  /\ UNCHANGED <<moduleVars, runVars>>

\* db_query called with a text of the caller's own.
CallDbQuery ==
  /\ tool_call = NoCall
  /\ \E text \in QueryTexts : Query("db_query", <<>>, text)
  /\ UNCHANGED <<moduleVars, runVars>>

CallRecallQuery ==
  /\ tool_call = NoCall
  /\ \E ext \in Externals(RecallSteps) :
       /\ tool_call' = [tool |-> "recall_query", args |-> <<>>, text |-> <<>>,
                        fails_at |-> ext.fails_at,
                        message |-> ext.message, rows |-> ext.rows]
       /\ tool_return' = recall_query(ext)
  /\ UNCHANGED <<moduleVars, runVars, warehouse>>

CallNotify ==
  /\ tool_call = NoCall
  /\ tool_call' = [NoCall EXCEPT !.tool = "notify"]
  /\ tool_return' = notify
  /\ UNCHANGED <<moduleVars, runVars, warehouse>>

ToolNext ==
  \/ CallDbTool
  \/ CallDbQuery
  \/ CallRecallQuery
  \/ CallNotify

\* What the warehouse calls of an agent's tool do during one invocation:
\* all return, or one of them raises.
ToolExternals ==
  {ext \in Externals(DbSteps) :
     ext.message = "Connection timed out" /\ ext.rows = <<>>}

\* What an invocation that returns leaves of its tool call: the agent, when
\* the tool gave a raised exception back as an error dict, else NoAgent.
ToolErrors(agent) ==
  IF CallsWarehouse(agent)
    THEN {IF db_query(ext).key = "error" THEN agent ELSE NoAgent :
            ext \in {e \in ToolExternals : ~db_query(e).raised}}
    ELSE {NoAgent}

(***************************************************************************)
(* Initial state                                                           *)
(***************************************************************************)

Init ==
  /\ pc = 1
  /\ defined = {}
  /\ load_error = "none"
  /\ script = <<>>
  /\ stage = 1
  /\ state = [k \in OutputKeys |-> Unset]
  /\ phase = "AWAITING_CRITIQUE"
  /\ times_looped = 0
  /\ escalate = FALSE
  /\ failed = NoAgent
  /\ tool_failed = NoAgent
  /\ raised = FALSE
  /\ refiner_output = NoText
  /\ prev_round_candidate = Unset
  /\ sentinel_seen = FALSE
  /\ critic_round = 0
  /\ critic_output = NoText
  /\ last_answered = NoAgent
  /\ warehouse = [t \in Tables |-> 0]
  /\ tool_call = NoCall
  /\ tool_return = NoReturn

loopVars ==
  <<phase, times_looped, escalate, refiner_output, sentinel_seen,
    critic_round, critic_output, last_answered>>

(***************************************************************************)
(* The module's statements and the caller                                  *)
(***************************************************************************)

\* The next statement of the module is executed: it binds its name, or
\* raises NameError on a name that nothing has bound.
ExecStatement ==
  /\ ~LoadEnded
  /\ LET stmt == ModuleStatements[pc]
     IN IF stmt.reads \subseteq (ModuleConstants \cup defined)
          THEN /\ defined' = defined \cup {stmt.binds}
               /\ pc' = pc + 1
               /\ load_error' = load_error
          ELSE /\ load_error' = "NameError"
               /\ UNCHANGED <<pc, defined>>
  /\ UNCHANGED <<runVars, warehouse, toolVars>>

\* A caller takes a fresh session and starts running agents on it.  The
\* agents it can run are the objects the statements before the NameError
\* have built; they are at hand wherever the statements were executed in a
\* namespace that outlives the exception.
StartRun ==
  /\ LoadEnded
  /\ script = <<>>
  /\ \E sc \in Scripts(defined) : script' = sc
  /\ UNCHANGED <<moduleVars, stage, state, loopVars, failed, tool_failed,
                 raised, prev_round_candidate, warehouse, toolVars>>

(***************************************************************************)
(* Steps outside the loop                                                  *)
(***************************************************************************)

\* recall_agent or predictive_maintenance_agent answers and stores its summary.
RunSummaryAgent ==
  /\ CurrentAgent \in {"recall_agent", "predictive_maintenance_agent"}
  /\ state' = SaveOutput(state, CurrentAgent, Summary(CurrentAgent))
  /\ stage' = stage + 1
  /\ warehouse' \in Handed(warehouse, CurrentAgent)
  /\ tool_failed' \in ToolErrors(CurrentAgent)
  /\ UNCHANGED <<moduleVars, script, loopVars, failed, raised,
                 prev_round_candidate, toolVars>>

\* part_ordering_agent has no output_key; it may order parts.
RunPartOrdering ==
  /\ CurrentAgent = "part_ordering_agent"
  /\ stage' = stage + 1
  /\ warehouse' \in Handed(warehouse, "part_ordering_agent")
  /\ tool_failed' \in ToolErrors("part_ordering_agent")
  /\ UNCHANGED <<moduleVars, script, state, loopVars, failed, raised,
                 prev_round_candidate, toolVars>>

\* appointment_scheduling_agent (the Proposer) stores the first candidate.
RunScheduling ==
  /\ CurrentAgent = "appointment_scheduling_agent"
  /\ \E proposal \in ScheduleTexts \cup {""} :
       /\ state' = SaveOutput(state, "appointment_scheduling_agent", proposal)
       /\ prev_round_candidate' =
            IF phase = "AWAITING_CRITIQUE" /\ times_looped = 0
              THEN state'["appointment_scheduling_result"]
              ELSE prev_round_candidate
  /\ stage' = stage + 1
  /\ warehouse' \in Handed(warehouse, "appointment_scheduling_agent")
  /\ tool_failed' \in ToolErrors("appointment_scheduling_agent")
  /\ UNCHANGED <<moduleVars, script, loopVars, failed, raised, toolVars>>

(***************************************************************************)
(* Steps of the loop                                                       *)
(***************************************************************************)

\* appointment_critic_agent answers; its output_key stores the text of the
\* answer, if it has any.
CriticStep ==
  /\ CurrentAgent = "appointment_refinement_loop"
  /\ phase = "AWAITING_CRITIQUE"
  /\ LoopContinues(times_looped)
  /\ warehouse' \in Handed(warehouse, "appointment_critic_agent")
  /\ tool_failed' \in ToolErrors("appointment_critic_agent")
  /\ \E critique \in CriticAnswers :
       /\ state' = SaveOutput(state, "appointment_critic_agent", critique)
       /\ sentinel_seen' = (sentinel_seen \/ critique = COMPLETION_PHRASE)
       /\ critic_output' = critique
  /\ critic_round' = times_looped + 1
  /\ last_answered' = "appointment_critic_agent"
  /\ phase' = "CRITIQUED"
  /\ UNCHANGED <<moduleVars, script, stage, times_looped, escalate, failed,
                 raised, refiner_output, prev_round_candidate, toolVars>>

\* appointment_refinement_agent answers; LoopAgent then either returns
\* (escalation, or the iteration bound) or starts the next iteration.
RefinerStep ==
  /\ CurrentAgent = "appointment_refinement_loop"
  /\ phase = "CRITIQUED"
  /\ \E refined \in ScheduleTexts :
       LET answer == RefinerAnswer(Feedback, refined)
           esc == RefinerEscalates(Feedback)
           ph == LoopOutcome(esc, times_looped)
           n == IF ph = "TERMINATED" THEN times_looped
                                     ELSE NextTimesLooped(times_looped)
       IN /\ state' = SaveOutput(state, "appointment_refinement_agent", answer)
          /\ refiner_output' = answer
          /\ escalate' = esc
          /\ times_looped' = n
          /\ phase' = ph
          /\ stage' = IF ph \in LoopTerminal THEN stage + 1 ELSE stage
          /\ prev_round_candidate' =
               IF ph = "TERMINATED" THEN prev_round_candidate
                                    ELSE state'["appointment_scheduling_result"]
  /\ warehouse' \in Handed(warehouse, "appointment_refinement_agent")
  /\ tool_failed' \in ToolErrors("appointment_refinement_agent")
  /\ last_answered' = "appointment_refinement_agent"
  /\ UNCHANGED <<moduleVars, script, failed, raised, sentinel_seen,
                 critic_round, critic_output, toolVars>>

(***************************************************************************)
(* Failing invocations                                                     *)
(***************************************************************************)

\* The agent whose model or tool call is in flight.
InvokedAgents ==
  CASE CurrentAgent = "appointment_refinement_loop" ->
         IF phase = "AWAITING_CRITIQUE" THEN {appointment_refinement_loop[1]}
         ELSE IF phase = "CRITIQUED" THEN {appointment_refinement_loop[2]}
         ELSE {}
    [] CurrentAgent = NoAgent -> {}
    [] OTHER -> {CurrentAgent}

\* The invocation of an agent raises (its model call failed, or a call that
\* no tool wraps in a try).  The module gives no agent and no LoopAgent a
\* handler, so the exception leaves the run; the tool calls made before it
\* have had their effect.
InvocationFails ==
  /\ \E a \in InvokedAgents :
       /\ failed' = a
       /\ raised' = TRUE
       /\ phase' = IF CurrentAgent = "appointment_refinement_loop"
                     THEN "FAULT" ELSE phase
       /\ warehouse' \in Handed(warehouse, a)
  /\ UNCHANGED <<moduleVars, script, stage, state, times_looped, escalate,
                 tool_failed, refiner_output, prev_round_candidate, sentinel_seen,
                 critic_round, critic_output, last_answered, toolVars>>

Next ==
  \/ ExecStatement
  \/ StartRun
  \/ RunSummaryAgent
  \/ RunPartOrdering
  \/ RunScheduling
  \/ CriticStep
  \/ RefinerStep
  \/ InvocationFails

Spec == Init /\ [][Next]_vars

\* The runs in which a caller runs the loop: alone, after the agent whose
\* answer it refines, or after the agent whose orders its Critic reads.
LoopScripts ==
  {<<"appointment_refinement_loop">>,
   <<"appointment_scheduling_agent", "appointment_refinement_loop">>,
   <<"part_ordering_agent", "appointment_refinement_loop">>}

\* A caller takes a fresh session and starts a run of the loop on it.
StartLoopRun ==
  /\ LoadEnded
  /\ script = <<>>
  /\ \E sc \in LoopScripts \cap Scripts(defined) : script' = sc
  /\ UNCHANGED <<moduleVars, stage, state, loopVars, failed, tool_failed,
                 raised, prev_round_candidate, warehouse, toolVars>>

LoopRunNext ==
  \/ ExecStatement
  \/ StartLoopRun
  \/ RunPartOrdering
  \/ RunScheduling
  \/ CriticStep
  \/ RefinerStep
  \/ InvocationFails

\* The runs of the loop, in which the interpreter and the runtime keep
\* taking a step that is ready.
FairSpec == Init /\ [][LoopRunNext]_vars /\ WF_vars(LoopRunNext)

\* One call of a data tool, with every behaviour of its external calls.
ToolSpec == Init /\ [][ToolNext]_vars

(***************************************************************************)
(* Steps as seen in a transition                                           *)
(***************************************************************************)

\* The Critic answered in this step.
CriticAnswered == phase = "AWAITING_CRITIQUE" /\ phase' = "CRITIQUED"

\* The Refiner answered in this step.
RefinerAnswered ==
  phase = "CRITIQUED" /\ phase' \in {"AWAITING_CRITIQUE"} \cup LoopTerminal

\* The Refiner's invocation returned (did not raise) in this step.
RefinerReturned == phase = "CRITIQUED" /\ phase' # phase /\ failed' = failed

\* The Proposer answered in this step.
ProposerAnswered ==
  CurrentAgent = "appointment_scheduling_agent" /\ stage' = stage + 1

\* Round of the loop that is running or ran last (1-based).
Round == IF phase = "ROUNDS_EXHAUSTED" THEN times_looped ELSE times_looped + 1

\* The loop has returned to the caller and no later agent has answered yet.
LoopReturned ==
  /\ phase \in LoopTerminal
  /\ stage > 1
  /\ script[stage - 1] = "appointment_refinement_loop"

(***************************************************************************)
(* Properties                                                              *)
(***************************************************************************)

\* C1: the loop never runs more than max_iterations Critic+Refiner rounds:
\* the round counter never exceeds max_iterations, and once it has reached
\* max_iterations neither the Critic nor the Refiner answers again.
C1_AtMostMaxRounds ==
  /\ [](times_looped <= max_iterations)
  /\ [][times_looped >= max_iterations
          => ~CriticAnswered /\ ~RefinerAnswered]_vars

\* C1 witness: five rounds have run and the loop has stopped on the bound.
C1_Witness ==
  phase = "ROUNDS_EXHAUSTED" /\ times_looped = max_iterations /\ ~sentinel_seen

\* C2 as stated: when the Critic answers the sentinel "No major issues
\* found." in round k, the Refiner's answer of that round stops the loop in
\* round k with the termination signal set, and the candidate at loop exit
\* is the one the previous round left (the Proposer's, or none, when k = 1);
\* no Critic or Refiner step follows.
C2_SentinelStopsLoop ==
  /\ [](sentinel_seen /\ phase \notin {"CRITIQUED", "FAULT"}
          => phase = "TERMINATED" /\ escalate /\ Round <= max_iterations)
  /\ [](sentinel_seen /\ LoopReturned => Candidate = prev_round_candidate)
  /\ [][/\ (RefinerAnswered /\ sentinel_seen
              => /\ phase' = "TERMINATED"
                 /\ times_looped' = times_looped
                 /\ Candidate' = Candidate)
        /\ (phase = "TERMINATED"
              => /\ ~CriticAnswered /\ ~RefinerAnswered
                 /\ UNCHANGED <<phase, times_looped, escalate>>)]_vars

\* C3 as stated: when the loop has stopped without the Critic ever answering
\* the sentinel "No major issues found.", exactly max_iterations rounds have
\* run, the termination signal is unset and the candidate at loop exit is
\* the text of the Refiner's last answer.
C3_ExhaustionKeepsLastRefinement ==
  /\ (phase \in LoopTerminal /\ ~sentinel_seen
        => /\ phase = "ROUNDS_EXHAUSTED"
           /\ times_looped = max_iterations
           /\ ~escalate
           /\ refiner_output \in ScheduleTexts)
  /\ (LoopReturned /\ ~sentinel_seen => Candidate = refiner_output)
  /\ (~sentinel_seen /\ times_looped = max_iterations
        => phase = "ROUNDS_EXHAUSTED")

\* C4 as stated: the termination signal is set only on a critique that equals
\* "No major issues found." exactly; on a critique that differs from it in
\* case or in outer whitespace the Refiner's answer overwrites the
\* candidate, the signal stays unset and the round counts as an ordinary one.
C4_ExactMatchOnly ==
  /\ [](escalate => Feedback = COMPLETION_PHRASE)
  /\ [][RefinerAnswered /\ Feedback \in PhraseVariants
          => /\ ~escalate'
             /\ phase' # "TERMINATED"
             /\ times_looped' = times_looped + 1
             /\ refiner_output' \in ScheduleTexts
             /\ Candidate' = refiner_output']_vars

\* C5 as stated: wherever the loop runs, the Commit stage runs at most once,
\* only after the loop has reached a terminal state, and is not skipped
\* once the loop has terminated.
C5_CommitOnceInEveryPipeline ==
  /\ Commits <= 1
  /\ (Commits > 0 => phase \in LoopTerminal)
  /\ (phase \in LoopTerminal
        => \/ Commits = 1
           \/ CurrentAgent = "appointment_booking_agent"
           \/ failed = "appointment_booking_agent")

\* C6: every run of the loop whose invocations all return reaches
\* TERMINATED or ROUNDS_EXHAUSTED.
C6_LoopTerminates ==
  (CurrentAgent = "appointment_refinement_loop")
    ~> (phase \in LoopTerminal \/ raised)

\* C6 witness: the loop has stopped although the signal was never set.
C6_Witness ==
  /\ phase = "ROUNDS_EXHAUSTED"
  /\ ~escalate
  /\ ~raised
  /\ Feedback \in MalformedFeedback

C8_FailureSurfaces ==
  /\ [](failed \in LoopSubAgents \/ tool_failed \in LoopSubAgents
          => raised /\ phase = "FAULT" /\ ~escalate /\ CurrentAgent = NoAgent)
  /\ [][(failed \in LoopSubAgents \/ tool_failed \in LoopSubAgents)
          => UNCHANGED vars]_vars

\* C9 as stated: on a malformed or empty critique the Refiner's step leaves
\* the candidate unchanged and the loop does not enter a fault state.
C9_MalformedLeavesCandidate ==
  [][(RefinerReturned /\ Feedback \in MalformedFeedback)
       => Candidate' = Candidate /\ phase' # "FAULT"]_vars

\* C9 amended: a malformed or empty critique is handled like any critique
\* that is not the phrase the Refiner's instruction names: the signal stays
\* unset, the Refiner's answer overwrites the candidate, the round is
\* counted, and the loop goes on or stops on the bound without entering a
\* fault state.
C9_MalformedIsOrdinaryFeedback ==
  [][(RefinerReturned /\ Feedback \in MalformedFeedback)
       => /\ ~escalate'
          /\ refiner_output' \in ScheduleTexts
          /\ Candidate' = refiner_output'
          /\ times_looped' = times_looped + 1
          /\ phase' \in {"AWAITING_CRITIQUE", "ROUNDS_EXHAUSTED"}]_vars

\* C9 witness: round 1 ended on an empty critique and the loop goes on.
C9_Witness ==
  /\ Feedback = EmptyFeedback
  /\ phase = "AWAITING_CRITIQUE"
  /\ times_looped = 1
  /\ Candidate = ScheduleName[1]
  /\ failed = NoAgent

\* C10 as stated: on the sentinel "No major issues found." the Refiner sets
\* the termination signal and answers no text, so the candidate slot after
\* its step equals the slot before it, whatever it holds (an empty candidate
\* stays empty, an unset one unset).
C10_ExitLeavesCandidate ==
  [][RefinerAnswered /\ Feedback = COMPLETION_PHRASE
       => /\ escalate'
          /\ refiner_output' = NoText
          /\ Candidate' = Candidate
          /\ phase' = "TERMINATED"]_vars

\* C11: a data tool reports a failing external call as a returned value,
\* never as an exception, and makes each of its external calls at most
\* once: on a failure db_query (and every tool built on it) returns a dict
\* with the key "error" whose text carries the exception's message,
\* recall_query a dict with the key "status", and the calls made are the try
\* block's calls up to the failing one, once each; the SQL text is handed
\* to the warehouse at most once, no statement of it runs more than once,
\* and none runs when the client could not be built.
C11_ToolErrorsAreReturned ==
  /\ ~tool_return.raised
  /\ (tool_call.fails_at # 0
        => /\ tool_return.type = "dict"
           /\ tool_call.tool \in DbTools \cup {"db_query"}
                => /\ tool_return.key = "error"
                   /\ tool_return.text =
                        "An error occured with BigQuery: " \o tool_call.message
           /\ tool_call.tool = "recall_query"
                => /\ tool_return.key = "status"
                   /\ tool_return.text = "Error retrieving recalls."
           /\ Len(tool_return.calls) = tool_call.fails_at)
  /\ (tool_call.tool \in DbTools \cup {"db_query"}
        => \E n \in 0..Len(DbSteps) : tool_return.calls = SubSeq(DbSteps, 1, n))
  /\ (tool_call.tool = "recall_query"
        => \E n \in 0..Len(RecallSteps) :
             tool_return.calls = SubSeq(RecallSteps, 1, n))
  /\ Handovers(tool_return.calls) <= 1
  /\ \A t \in Tables :
       warehouse[t] <= (IF tool_call.fails_at = 1 THEN 0
                        ELSE InsertCount(tool_call.text, t))

\* C11 witness: create_appointment's query was refused by the warehouse.
C11_Witness ==
  /\ tool_call.tool = "create_appointment"
  /\ tool_call.args = <<<<PlainArg>>, <<PlainArg>>, <<PlainArg>>, <<PlainArg>>>>
  /\ tool_call.text = <<OwnStatement("create_appointment")>>
  /\ tool_call.fails_at = 2
  /\ tool_return.key = "error"
  /\ tool_return.calls = <<"bigquery.Client", "client.query">>
  /\ warehouse["APPOINTMENT"] = 0

\* C13 as stated: the termination signal is unset at first; it changes only
\* from unset to set, and only in a step in which the Refiner answers a
\* critique that is the sentinel "No major issues found." (so it is set at
\* most once, and by no other agent); once it is set it stays set and
\* neither the Critic nor the Refiner answers again.
C13_SignalSetOnceByRefiner ==
  /\ ~escalate
  /\ [][/\ (escalate' # escalate
              => /\ ~escalate /\ escalate'
                 /\ RefinerAnswered
                 /\ Feedback = COMPLETION_PHRASE)
        /\ (escalate
              => escalate' /\ ~CriticAnswered /\ ~RefinerAnswered)]_vars

RoundOrder ==
  /\ (phase' # phase
        => \/ CriticAnswered /\ last_answered' = "appointment_critic_agent"
           \/ RefinerAnswered /\ last_answered' = "appointment_refinement_agent"
           \/ phase' = "FAULT" /\ failed' \in LoopSubAgents)
  /\ (last_answered' # last_answered => phase' # phase)
  /\ (CriticAnswered
        => /\ last_answered \in {NoAgent, "appointment_refinement_agent"}
           /\ critic_round' = times_looped + 1)
  /\ (RefinerAnswered
        => /\ last_answered = "appointment_critic_agent"
           /\ critic_round = times_looped + 1)

\* C15 as stated: the order of the steps above; the feedback the Refiner
\* reads is the answer of the Critic step of its round; outside a round's
\* CRITIQUED state the feedback slot holds no feedback.
C15_FeedbackNotRetained ==
  /\ [](phase \in {"AWAITING_CRITIQUE"} \cup LoopTerminal => Feedback = Unset)
  /\ [][/\ RoundOrder
        /\ (RefinerAnswered => Feedback = critic_output)]_vars

\* C15 amended: the order of the steps above; the Refiner reads the feedback
\* slot, which holds the answer of the Critic step of its round whenever
\* that answer has text; the slot keeps its content after the round and
\* after the loop, and changes only by a Critic answer that has text.
C15_SameRoundFeedbackIsRetained ==
  /\ Feedback = Unset
  /\ [][/\ RoundOrder
        /\ (RefinerAnswered /\ critic_output # NoText
              => Feedback = critic_output)
        /\ (Feedback' # Feedback
              => CriticAnswered /\ critic_output' # NoText
                   /\ Feedback' = critic_output')]_vars

\* C15 witness: two rounds have ended and the third has not been critiqued;
\* the feedback slot still holds the critique of round 2.
C15_Witness ==
  /\ phase = "AWAITING_CRITIQUE"
  /\ times_looped = 2
  /\ critic_round = 2
  /\ last_answered = "appointment_refinement_agent"
  /\ Feedback = ActionableFeedback
  /\ Candidate = refiner_output

====
